---- MODULE Spec2Model ----
(***************************************************************************)
(* Model of the server-cli terminal menu (src/main.go): the bubbletea      *)
(* model ServerModel, its Update step, the startup command checkVaultToken *)
(* and the script command built by runServerScript.                        *)
(*                                                                         *)
(* Go strings that the code inspects byte by byte (names that are sorted,  *)
(* the token buffer that is sliced) are sequences of byte values.  Texts   *)
(* that are only stored and tested for emptiness are TLA+ strings; a text  *)
(* that is put together from parts (the script output) is the sequence of  *)
(* its parts, "" being the empty sequence.                                 *)
(* Go's 0-based indices are kept; a slice s is read as s[i + 1].           *)
(***************************************************************************)
EXTENDS Integers, Sequences, FiniteSets, TLC

VARIABLES
    config,           \* m.config.Categories: category name -> (server name -> ServerConfig)
    categoryNames,    \* m.categoryNames
    serverNames,      \* m.serverNames
    categoryCursor,   \* m.categoryCursor
    serverCursor,     \* m.serverCursor
    selectedCategory, \* m.selectedCategory
    selectedServer,   \* m.selectedServer
    state,            \* m.state
    runOutput,        \* m.runOutput
    hasError,         \* m.hasError
    errorMessage,     \* m.errorMessage
    vaultToken,       \* m.vaultToken
    vaultTokenInput,  \* m.vaultTokenInput
    pasteError,       \* m.pasteError
    env,              \* the process environment's VAULT_TOKEN ("" when unset)
    envWrites,        \* number of os.Setenv calls made so far
    status,           \* the process: "running", "quit" or "panic"
    cmds,             \* commands handed to the runtime and not yet run
    msgs,             \* messages produced by commands and not yet applied
    launches,         \* number of runServerScript commands returned so far
    procs,            \* child processes started so far
    last              \* the step taken last: its event and the screen it met
                      \* (see StepFull)

model == <<config, categoryNames, serverNames, categoryCursor, serverCursor,
           selectedCategory, selectedServer, state, runOutput, hasError,
           errorMessage, vaultToken, vaultTokenInput, pasteError>>

vars == <<config, categoryNames, serverNames, categoryCursor, serverCursor,
          selectedCategory, selectedServer, state, runOutput, hasError,
          errorMessage, vaultToken, vaultTokenInput, pasteError,
          env, envWrites, status, cmds, msgs, launches, procs, last>>

(***************************************************************************)
(* Bounds of the model.                                                    *)
(***************************************************************************)
\* longest token buffer, in bytes
MaxInput == 2
\* most script launches in one run
MaxLaunches == 2

(***************************************************************************)
(* AppState (iota).                                                        *)
(***************************************************************************)
StateVaultTokenInput == 0
StateCategorySelection == 1
StateServerSelection == 2
StateScriptOutput == 3

(***************************************************************************)
(* Byte strings.                                                           *)
(***************************************************************************)
\* Go's < on strings: byte-wise lexicographic, a proper prefix first.
RECURSIVE StrLess(_, _)
StrLess(s, t) ==
    IF t = <<>> THEN FALSE
    ELSE IF s = <<>> THEN TRUE
    ELSE IF Head(s) # Head(t) THEN Head(s) < Head(t)
    ELSE StrLess(Tail(s), Tail(t))

RECURSIVE Insert(_, _)
Insert(x, sorted) ==
    IF sorted = <<>> THEN <<x>>
    ELSE IF StrLess(Head(sorted), x) THEN <<Head(sorted)>> \o Insert(x, Tail(sorted))
    ELSE <<x>> \o sorted

\* sort.Strings
RECURSIVE SortStrings(_)
SortStrings(names) ==
    IF names = <<>> THEN <<>>
    ELSE Insert(Head(names), SortStrings(Tail(names)))

\* The orders in which a range loop may visit the keys of a Go map.
RangeOrders(keys) ==
    {order \in [1..Cardinality(keys) -> keys] :
        \A k \in keys : \E i \in 1..Cardinality(keys) : order[i] = k}

(***************************************************************************)
(* Configurations.  ServerConfig keeps the two fields that decide what     *)
(* runs; script_args, env_vars and description change no control flow.     *)
(***************************************************************************)
ServerConfig(script, path) == [Script |-> script, ScriptPath |-> path]

\* the zero ServerConfig a map lookup of a missing key returns
NoServerConfig == ServerConfig("", "")

\* a map with no keys (also the nil map of a zero CategoryConfig)
EmptyMap == [k \in {} |-> NoServerConfig]

\* "p" -> {"e": script "echo hi", "w": path}
ConfigOne ==
    (<<112>> :> (<<101>> :> ServerConfig("echo hi", "")
                 @@ <<119>> :> ServerConfig("", "/bin/run")))

\* "a" -> {"e": neither, "ea": script "exit 3" and path}, "b" -> {}
ConfigTwo ==
    (<<97>> :> (<<101>> :> NoServerConfig
                @@ <<101, 97>> :> ServerConfig("exit 3", "/bin/run")))
    @@ (<<98>> :> EmptyMap)

\* "c" -> {}: one category, with no servers
ConfigThree == (<<99>> :> EmptyMap)

\* a document with no categories
ConfigNone == [k \in {} |-> EmptyMap]

Configs == {ConfigOne, ConfigTwo, ConfigThree, ConfigNone}

\* what LoadConfig returns: a parsed document, or an error
LoadResults ==
    {[err |-> "", config |-> c] : c \in Configs}
    \cup {[err |-> "could not read config file", config |-> ConfigNone]}

\* m.config.Categories[category].Servers
Servers(category) ==
    IF category \in DOMAIN config THEN config[category] ELSE EmptyMap

\* m.config.Categories[category].Servers[server]
ServerConfigOf(category, server) ==
    IF server \in DOMAIN Servers(category)
    THEN Servers(category)[server] ELSE NoServerConfig

\* VAULT_TOKEN as the process finds it: unset, or "t"
AmbientTokens == {<<>>, <<116>>}

(***************************************************************************)
(* initialSetup: the model the program starts with.                        *)
(***************************************************************************)
initialSetup(loaded, order) ==
    /\ config = (IF loaded.err # "" \/ DOMAIN loaded.config = {}
                 THEN ConfigNone ELSE loaded.config)
    /\ errorMessage = (IF loaded.err # "" THEN loaded.err
                       ELSE IF DOMAIN loaded.config = {}
                            THEN "No categories defined in configuration"
                            ELSE "")
    /\ categoryNames = (IF loaded.err # "" THEN <<>> ELSE SortStrings(order))
    /\ serverNames = <<>>
    /\ categoryCursor = 0
    /\ serverCursor = 0
    /\ selectedCategory = <<>>
    /\ selectedServer = <<>>
    /\ state = StateVaultTokenInput
    /\ runOutput = <<>>
    /\ hasError = FALSE
    /\ vaultToken = <<>>
    /\ vaultTokenInput = <<>>
    /\ pasteError = ""

\* main: initialSetup, then the program runs Init's command checkVaultToken
Init ==
    /\ \E loaded \in LoadResults :
         \E order \in RangeOrders(DOMAIN loaded.config) :
            initialSetup(loaded, order)
    /\ env \in AmbientTokens
    /\ envWrites = 0
    /\ status = "running"
    /\ cmds = {[cmd |-> "checkVaultToken", id |-> 0, server |-> <<>>,
                config |-> NoServerConfig, token |-> <<>>]}
    /\ msgs = {}
    /\ launches = 0
    /\ procs = {}
    /\ last = [ev |-> "init", on |-> StateVaultTokenInput, id |-> 0, was |-> -1]

(***************************************************************************)
(* Key events.  A key is named by msg.String(); String(key) is that text  *)
(* as bytes.  The keys fed to the program are the set Keys; the case      *)
(* lists of Update are given in full.                                     *)
(***************************************************************************)
String(key) ==
    CASE key = "a" -> <<97>>
      [] key = "q" -> <<113>>
      [] key = "e_acute" -> <<195, 169>>
      [] key = "up" -> <<117, 112>>
      [] key = "down" -> <<100, 111, 119, 110>>
      [] key = "esc" -> <<101, 115, 99>>
      [] key = "enter" -> <<101, 110, 116, 101, 114>>
      [] key = "ctrl+v" -> <<99, 116, 114, 108, 43, 118>>
      [] key = "backspace" -> <<98, 97, 99, 107, 115, 112, 97, 99, 101>>

Keys == {"a", "q", "e_acute", "up", "down", "esc", "enter", "ctrl+v",
         "backspace"}

QuitKeys == {"ctrl+c", "q"}
UpKeys == {"up", "k"}
DownKeys == {"down", "j"}
EnterKeys == {"enter"}
PasteKeys == {"ctrl+v", "cmd+v"}
BackKeys == {"b", "backspace", "esc"}

\* what clipboard.ReadAll returns: an error, or the clipboard's text
ClipboardResults ==
    {[err |-> TRUE, text |-> <<>>],
     [err |-> FALSE, text |-> <<>>],
     [err |-> FALSE, text |-> <<195, 169>>]}

Running == status = "running"

\* main starts the program, which runs Init's command and applies its
\* message at startup; the keys are those typed at the screen that follows
Started ==
    /\ Running
    /\ msgs = {}
    /\ \A c \in cmds : c.cmd # "checkVaultToken"

\* the step being taken: its event, the screen it finds, for a launch
\* or a script's message the launch it belongs to (0 otherwise) and, for a
\* confirm on the category screen made right after back from the server
\* screen, the server cursor before it (-1 otherwise)
StepFull(ev, id, was) == last' = [ev |-> ev, on |-> state, id |-> id, was |-> was]

StepOf(ev, id) == StepFull(ev, id, -1)

Step(ev) == StepOf(ev, 0)

\* the keys that are one typed character (a rune); the others are named keys
Runes == {"a", "q", "e_acute"}

\* a named key that no case of the screen's switch names
Unhandled == "other"

(***************************************************************************)
(* Update, case tea.KeyMsg, StateVaultTokenInput (lines 113-147).         *)
(* m.pasteError is cleared before the key is looked at.                   *)
(***************************************************************************)
TokenQuit(key) ==
    /\ Started /\ state = StateVaultTokenInput
    /\ key \in QuitKeys
    /\ pasteError' = ""
    /\ status' = "quit"
    /\ Step(key)
    /\ UNCHANGED <<config, categoryNames, serverNames, categoryCursor,
                   serverCursor, selectedCategory, selectedServer, state,
                   runOutput, hasError, errorMessage, vaultToken,
                   vaultTokenInput, env, envWrites, cmds, msgs, launches, procs>>

\* TokenEnter without the test for an empty buffer
TokenEnterUnguarded(key) ==
    /\ Started /\ state = StateVaultTokenInput
    /\ key \in EnterKeys
    /\ pasteError' = ""
    /\ env' = vaultTokenInput
    /\ envWrites' = envWrites + 1
    /\ vaultToken' = vaultTokenInput
    /\ state' = StateCategorySelection
    /\ Step(key)
    /\ UNCHANGED <<config, categoryNames, serverNames, categoryCursor,
                   serverCursor, selectedCategory, selectedServer,
                   runOutput, hasError, errorMessage,
                   vaultTokenInput, status, cmds, msgs, launches, procs>>

\* TokenEnter publishing m.vaultToken before it is assigned
TokenEnterStaleEnv(key) ==
    /\ Started /\ state = StateVaultTokenInput
    /\ key \in EnterKeys
    /\ pasteError' = ""
    /\ IF vaultTokenInput # <<>>
       THEN /\ env' = vaultToken
            /\ envWrites' = envWrites + 1
            /\ vaultToken' = vaultTokenInput
            /\ state' = StateCategorySelection
       ELSE UNCHANGED <<env, envWrites, vaultToken, state>>
    /\ Step(key)
    /\ UNCHANGED <<config, categoryNames, serverNames, categoryCursor,
                   serverCursor, selectedCategory, selectedServer,
                   runOutput, hasError, errorMessage,
                   vaultTokenInput, status, cmds, msgs, launches, procs>>

TokenEnter(key) ==
    /\ Started /\ state = StateVaultTokenInput
    /\ key \in EnterKeys
    /\ pasteError' = ""
    /\ IF vaultTokenInput # <<>>
       THEN /\ env' = vaultTokenInput
            /\ envWrites' = envWrites + 1
            /\ vaultToken' = vaultTokenInput
            /\ state' = StateCategorySelection
       ELSE UNCHANGED <<env, envWrites, vaultToken, state>>
    /\ Step(key)
    /\ UNCHANGED <<config, categoryNames, serverNames, categoryCursor,
                   serverCursor, selectedCategory, selectedServer,
                   runOutput, hasError, errorMessage,
                   vaultTokenInput, status, cmds, msgs, launches, procs>>

\* TokenPaste emptying the buffer when the clipboard cannot be read
TokenPasteLosesBuffer(key) ==
    /\ Started /\ state = StateVaultTokenInput
    /\ key \in PasteKeys
    /\ \E clip \in ClipboardResults :
         /\ Len(vaultTokenInput) + Len(clip.text) <= MaxInput
         /\ IF clip.err
            THEN /\ pasteError' = "Failed to paste"
                 /\ vaultTokenInput' = <<>>
            ELSE /\ pasteError' = ""
                 /\ vaultTokenInput' = vaultTokenInput \o clip.text
    /\ Step(key)
    /\ UNCHANGED <<config, categoryNames, serverNames, categoryCursor,
                   serverCursor, selectedCategory, selectedServer, state,
                   runOutput, hasError, errorMessage, vaultToken,
                   env, envWrites, status, cmds, msgs, launches, procs>>

\* pasteFromClipboard runs inside the step
TokenPaste(key) ==
    /\ Started /\ state = StateVaultTokenInput
    /\ key \in PasteKeys
    /\ \E clip \in ClipboardResults :
         /\ Len(vaultTokenInput) + Len(clip.text) <= MaxInput
         /\ IF clip.err
            THEN /\ pasteError' = "Failed to paste"
                 /\ UNCHANGED vaultTokenInput
            ELSE /\ pasteError' = ""
                 /\ vaultTokenInput' = vaultTokenInput \o clip.text
    /\ Step(key)
    /\ UNCHANGED <<config, categoryNames, serverNames, categoryCursor,
                   serverCursor, selectedCategory, selectedServer, state,
                   runOutput, hasError, errorMessage, vaultToken,
                   env, envWrites, status, cmds, msgs, launches, procs>>

TokenBackspace(key) ==
    /\ Started /\ state = StateVaultTokenInput
    /\ key = "backspace"
    /\ pasteError' = ""
    /\ vaultTokenInput' =
         (IF Len(vaultTokenInput) > 0
          THEN SubSeq(vaultTokenInput, 1, Len(vaultTokenInput) - 1)
          ELSE vaultTokenInput)
    /\ Step(key)
    /\ UNCHANGED <<config, categoryNames, serverNames, categoryCursor,
                   serverCursor, selectedCategory, selectedServer, state,
                   runOutput, hasError, errorMessage, vaultToken,
                   env, envWrites, status, cmds, msgs, launches, procs>>

TokenDefault(key) ==
    /\ Started /\ state = StateVaultTokenInput
    /\ key \notin QuitKeys \cup EnterKeys \cup PasteKeys \cup {"backspace"}
    /\ pasteError' = ""
    /\ IF Len(String(key)) = 1
       THEN /\ Len(vaultTokenInput) < MaxInput
            /\ vaultTokenInput' = vaultTokenInput \o String(key)
       ELSE UNCHANGED vaultTokenInput
    /\ Step(IF key \in Runes THEN key ELSE Unhandled)
    /\ UNCHANGED <<config, categoryNames, serverNames, categoryCursor,
                   serverCursor, selectedCategory, selectedServer, state,
                   runOutput, hasError, errorMessage, vaultToken,
                   env, envWrites, status, cmds, msgs, launches, procs>>

\* what a step on a list screen leaves alone outside the model
RuntimeSame == UNCHANGED <<env, envWrites, status, cmds, msgs, launches, procs>>

\* the fields no list screen writes
TokenSame ==
    UNCHANGED <<config, errorMessage, vaultToken, vaultTokenInput, pasteError>>

(***************************************************************************)
(* Update, case tea.KeyMsg, StateCategorySelection (lines 149-174).       *)
(***************************************************************************)
CategoryQuit(key) ==
    /\ Started /\ state = StateCategorySelection
    /\ key \in QuitKeys
    /\ status' = "quit"
    /\ Step(key)
    /\ TokenSame
    /\ UNCHANGED <<categoryNames, serverNames, categoryCursor, serverCursor,
                   selectedCategory, selectedServer, state, runOutput, hasError,
                   env, envWrites, cmds, msgs, launches, procs>>

CategoryUp(key) ==
    /\ Started /\ state = StateCategorySelection
    /\ key \in UpKeys
    /\ categoryCursor' =
         (IF categoryCursor > 0 THEN categoryCursor - 1 ELSE categoryCursor)
    /\ Step(key)
    /\ TokenSame /\ RuntimeSame
    /\ UNCHANGED <<categoryNames, serverNames, serverCursor, selectedCategory,
                   selectedServer, state, runOutput, hasError>>

CategoryDown(key) ==
    /\ Started /\ state = StateCategorySelection
    /\ key \in DownKeys
    /\ categoryCursor' =
         (IF categoryCursor < Len(categoryNames) - 1
          THEN categoryCursor + 1 ELSE categoryCursor)
    /\ Step(key)
    /\ TokenSame /\ RuntimeSame
    /\ UNCHANGED <<categoryNames, serverNames, serverCursor, selectedCategory,
                   selectedServer, state, runOutput, hasError>>

\* the server names of the selected category, collected in map order and
\* sorted (lines 165-170)
ServerNamesUnsorted(order) == order

ServerNamesOf(order) == SortStrings(order)

\* the step label of a confirm on the category screen
CategoryEnterStep(key) ==
    StepFull(key, 0,
             IF last.ev \in BackKeys /\ last.on = StateServerSelection
             THEN serverCursor ELSE -1)

\* CategoryEnter without the reset of the server cursor
CategoryEnterKeepsCursor(key) ==
    /\ Started /\ state = StateCategorySelection
    /\ key \in EnterKeys
    /\ CategoryEnterStep(key)
    /\ TokenSame
    /\ UNCHANGED <<categoryNames, categoryCursor, selectedServer, runOutput,
                   hasError, env, envWrites, cmds, msgs, launches, procs>>
    /\ IF categoryCursor < Len(categoryNames)
       THEN /\ selectedCategory' = categoryNames[categoryCursor + 1]
            /\ \E order \in RangeOrders(DOMAIN Servers(selectedCategory')) :
                 serverNames' = ServerNamesOf(order)
            /\ serverCursor' = serverCursor
            /\ state' = StateServerSelection
            /\ UNCHANGED status
       ELSE /\ status' = "panic"
            /\ UNCHANGED <<selectedCategory, serverNames, serverCursor, state>>

\* m.categoryNames[m.categoryCursor] outside the slice is a run-time panic
CategoryEnter(key) ==
    /\ Started /\ state = StateCategorySelection
    /\ key \in EnterKeys
    /\ CategoryEnterStep(key)
    /\ TokenSame
    /\ UNCHANGED <<categoryNames, categoryCursor, selectedServer, runOutput,
                   hasError, env, envWrites, cmds, msgs, launches, procs>>
    /\ IF categoryCursor < Len(categoryNames)
       THEN /\ selectedCategory' = categoryNames[categoryCursor + 1]
            /\ \E order \in RangeOrders(DOMAIN Servers(selectedCategory')) :
                 serverNames' = ServerNamesOf(order)
            /\ serverCursor' = 0
            /\ state' = StateServerSelection
            /\ UNCHANGED status
       ELSE /\ status' = "panic"
            /\ UNCHANGED <<selectedCategory, serverNames, serverCursor, state>>

CategoryOther(key) ==
    /\ Started /\ state = StateCategorySelection
    /\ key \notin QuitKeys \cup UpKeys \cup DownKeys \cup EnterKeys
    /\ Step(Unhandled)
    /\ TokenSame /\ RuntimeSame
    /\ UNCHANGED <<categoryNames, serverNames, categoryCursor, serverCursor,
                   selectedCategory, selectedServer, state, runOutput, hasError>>

(***************************************************************************)
(* Update, case tea.KeyMsg, StateServerSelection (lines 176-200).         *)
(***************************************************************************)
ServerQuit(key) ==
    /\ Started /\ state = StateServerSelection
    /\ key \in QuitKeys
    /\ status' = "quit"
    /\ Step(key)
    /\ TokenSame
    /\ UNCHANGED <<categoryNames, serverNames, categoryCursor, serverCursor,
                   selectedCategory, selectedServer, state, runOutput, hasError,
                   env, envWrites, cmds, msgs, launches, procs>>

ServerUp(key) ==
    /\ Started /\ state = StateServerSelection
    /\ key \in UpKeys
    /\ serverCursor' = (IF serverCursor > 0 THEN serverCursor - 1 ELSE serverCursor)
    /\ Step(key)
    /\ TokenSame /\ RuntimeSame
    /\ UNCHANGED <<categoryNames, serverNames, categoryCursor, selectedCategory,
                   selectedServer, state, runOutput, hasError>>

ServerDown(key) ==
    /\ Started /\ state = StateServerSelection
    /\ key \in DownKeys
    /\ serverCursor' =
         (IF serverCursor < Len(serverNames) - 1
          THEN serverCursor + 1 ELSE serverCursor)
    /\ Step(key)
    /\ TokenSame /\ RuntimeSame
    /\ UNCHANGED <<categoryNames, serverNames, categoryCursor, selectedCategory,
                   selectedServer, state, runOutput, hasError>>

\* ScriptCmd without the token
ScriptCmdNoToken(id, server, serverConfig, token) ==
    [cmd |-> "runServerScript", id |-> id, server |-> server,
     config |-> serverConfig, token |-> <<>>]

\* the command runServerScript returns, handed to the runtime
ScriptCmd(id, server, serverConfig, token) ==
    [cmd |-> "runServerScript", id |-> id, server |-> server,
     config |-> serverConfig, token |-> token]

\* m.serverNames[m.serverCursor] outside the slice is a run-time panic
ServerEnter(key) ==
    /\ Started /\ state = StateServerSelection
    /\ key \in EnterKeys
    /\ StepOf(key, IF serverCursor < Len(serverNames) THEN launches + 1 ELSE 0)
    /\ TokenSame
    /\ UNCHANGED <<categoryNames, serverNames, categoryCursor, serverCursor,
                   selectedCategory, runOutput, hasError, env, envWrites,
                   msgs, procs>>
    /\ IF serverCursor < Len(serverNames)
       THEN /\ launches < MaxLaunches
            /\ selectedServer' = serverNames[serverCursor + 1]
            /\ state' = StateScriptOutput
            /\ launches' = launches + 1
            /\ cmds' = cmds \cup
                 {ScriptCmd(launches + 1, selectedServer',
                            ServerConfigOf(selectedCategory, selectedServer'),
                            vaultToken)}
            /\ UNCHANGED status
       ELSE /\ status' = "panic"
            /\ UNCHANGED <<selectedServer, state, launches, cmds>>

\* ServerBack going to the token screen
ServerBackToTokenInput(key) ==
    /\ Started /\ state = StateServerSelection
    /\ key \in BackKeys
    /\ state' = StateVaultTokenInput
    /\ Step(key)
    /\ TokenSame /\ RuntimeSame
    /\ UNCHANGED <<categoryNames, serverNames, categoryCursor, serverCursor,
                   selectedCategory, selectedServer, runOutput, hasError>>

ServerBack(key) ==
    /\ Started /\ state = StateServerSelection
    /\ key \in BackKeys
    /\ state' = StateCategorySelection
    /\ Step(key)
    /\ TokenSame /\ RuntimeSame
    /\ UNCHANGED <<categoryNames, serverNames, categoryCursor, serverCursor,
                   selectedCategory, selectedServer, runOutput, hasError>>

ServerOther(key) ==
    /\ Started /\ state = StateServerSelection
    /\ key \notin QuitKeys \cup UpKeys \cup DownKeys \cup EnterKeys \cup BackKeys
    /\ Step(Unhandled)
    /\ TokenSame /\ RuntimeSame
    /\ UNCHANGED <<categoryNames, serverNames, categoryCursor, serverCursor,
                   selectedCategory, selectedServer, state, runOutput, hasError>>

(***************************************************************************)
(* Update, case tea.KeyMsg, StateScriptOutput (lines 202-212).            *)
(***************************************************************************)
OutputQuit(key) ==
    /\ Started /\ state = StateScriptOutput
    /\ key \in QuitKeys
    /\ status' = "quit"
    /\ Step(key)
    /\ TokenSame
    /\ UNCHANGED <<categoryNames, serverNames, categoryCursor, serverCursor,
                   selectedCategory, selectedServer, state, runOutput, hasError,
                   env, envWrites, cmds, msgs, launches, procs>>

OutputBack(key) ==
    /\ Started /\ state = StateScriptOutput
    /\ key \in BackKeys
    /\ state' = StateServerSelection
    /\ runOutput' = <<>>
    /\ hasError' = FALSE
    /\ Step(key)
    /\ TokenSame /\ RuntimeSame
    /\ UNCHANGED <<categoryNames, serverNames, categoryCursor, serverCursor,
                   selectedCategory, selectedServer>>

OutputOther(key) ==
    /\ Started /\ state = StateScriptOutput
    /\ key \notin QuitKeys \cup BackKeys
    /\ Step(Unhandled)
    /\ TokenSame /\ RuntimeSame
    /\ UNCHANGED <<categoryNames, serverNames, categoryCursor, serverCursor,
                   selectedCategory, selectedServer, state, runOutput, hasError>>

(***************************************************************************)
(* Commands.  The runtime runs each command off the update loop and feeds *)
(* the message it returns back to Update; the messages of different       *)
(* commands arrive in any order.                                           *)
(***************************************************************************)
Msg(type, id, text, token) ==
    [type |-> type, id |-> id, text |-> text, token |-> token]

\* checkVaultToken (lines 89-95)
checkVaultToken(c) ==
    /\ Running
    /\ c.cmd = "checkVaultToken"
    /\ cmds' = cmds \ {c}
    /\ msgs' = msgs \cup
         {IF env # <<>>
          THEN Msg("vaultTokenMsg", c.id, <<>>, env)
          ELSE Msg("vaultTokenMissingMsg", c.id, <<>>, <<>>)}
    /\ Step("checkVaultToken")
    /\ UNCHANGED <<model, env, envWrites, status, launches, procs>>

\* what cmd.CombinedOutput returns for a child process: its output, and
\* whether it started and exited with status 0
ProcessResults ==
    {[ok |-> TRUE, output |-> <<>>],
     [ok |-> TRUE, output |-> <<"hi\n">>],
     [ok |-> FALSE, output |-> <<>>]}

\* the message of a finished child process (lines 389-393, 410-414)
ProcessMsg(c, result) ==
    IF result.ok
    THEN Msg("scriptOutputMsg", c.id, result.output, <<>>)
    ELSE Msg("scriptErrorMsg", c.id, <<"exit status 3\n">> \o result.output, <<>>)

\* Spawned preferring the executable path to the inline script
SpawnedPathFirst(c) ==
    IF c.config.ScriptPath # ""
    THEN {[id |-> c.id, prog |-> c.config.ScriptPath, arg |-> ""]}
    ELSE IF c.config.Script # ""
    THEN {[id |-> c.id, prog |-> "bash", arg |-> c.config.Script]}
    ELSE {}

\* the child process the command starts, if any (lines 374, 388, 394-396)
Spawned(c) ==
    IF c.config.Script # ""
    THEN {[id |-> c.id, prog |-> "bash", arg |-> c.config.Script]}
    ELSE IF c.config.ScriptPath # ""
    THEN {[id |-> c.id, prog |-> c.config.ScriptPath, arg |-> ""]}
    ELSE {}

\* the messages the function runServerScript returns can produce (lines 372-418)
runServerScript(c) ==
    IF Spawned(c) # {}
    THEN {ProcessMsg(c, result) : result \in ProcessResults}
    ELSE {Msg("scriptErrorMsg", c.id,
              <<"No script or script_path defined for this server">>, <<>>)}

(***************************************************************************)
(* Update, the message cases (lines 215-231).  No command of the program  *)
(* returns a configErrorMsg, so its case (lines 233-235) never runs.      *)
(* A script command runs unseen by Update until its message is applied:   *)
(* the two are one step here.                                             *)
(***************************************************************************)
\* UpdateVaultTokenMsg passing over the category screen when there is one category
UpdateVaultTokenMsgSkipping(msg) ==
    /\ Running
    /\ msg.type = "vaultTokenMsg"
    /\ msgs' = msgs \ {msg}
    /\ vaultToken' = msg.token
    /\ IF Len(categoryNames) = 1
       THEN /\ selectedCategory' = categoryNames[1]
            /\ \E order \in RangeOrders(DOMAIN Servers(selectedCategory')) :
                 serverNames' = SortStrings(order)
            /\ state' = StateServerSelection
       ELSE /\ state' = StateCategorySelection
            /\ UNCHANGED <<selectedCategory, serverNames>>
    /\ Step(msg.type)
    /\ UNCHANGED <<config, categoryNames, categoryCursor,
                   serverCursor, selectedServer, runOutput,
                   hasError, errorMessage, vaultTokenInput, pasteError,
                   env, envWrites, status, cmds, launches, procs>>

UpdateVaultTokenMsg(msg) ==
    /\ Running
    /\ msg.type = "vaultTokenMsg"
    /\ msgs' = msgs \ {msg}
    /\ vaultToken' = msg.token
    /\ state' = StateCategorySelection
    /\ Step(msg.type)
    /\ UNCHANGED <<config, categoryNames, serverNames, categoryCursor,
                   serverCursor, selectedCategory, selectedServer, runOutput,
                   hasError, errorMessage, vaultTokenInput, pasteError,
                   env, envWrites, status, cmds, launches, procs>>

UpdateVaultTokenMissingMsg(msg) ==
    /\ Running
    /\ msg.type = "vaultTokenMissingMsg"
    /\ msgs' = msgs \ {msg}
    /\ state' = StateVaultTokenInput
    /\ Step(msg.type)
    /\ UNCHANGED <<config, categoryNames, serverNames, categoryCursor,
                   serverCursor, selectedCategory, selectedServer, runOutput,
                   hasError, errorMessage, vaultToken, vaultTokenInput,
                   pasteError, env, envWrites, status, cmds, launches, procs>>

UpdateScriptOutputMsg(c) ==
    /\ Running
    /\ c.cmd = "runServerScript"
    /\ \E msg \in runServerScript(c) :
         /\ msg.type = "scriptOutputMsg"
         /\ runOutput' = msg.text
         /\ StepOf(msg.type, msg.id)
    /\ cmds' = cmds \ {c}
    /\ procs' = procs \cup Spawned(c)
    /\ UNCHANGED <<config, categoryNames, serverNames, categoryCursor,
                   serverCursor, selectedCategory, selectedServer, state,
                   hasError, errorMessage, vaultToken, vaultTokenInput,
                   pasteError, env, envWrites, status, msgs, launches>>

UpdateScriptErrorMsg(c) ==
    /\ Running
    /\ c.cmd = "runServerScript"
    /\ \E msg \in runServerScript(c) :
         /\ msg.type = "scriptErrorMsg"
         /\ runOutput' = msg.text
         /\ StepOf(msg.type, msg.id)
    /\ hasError' = TRUE
    /\ cmds' = cmds \ {c}
    /\ procs' = procs \cup Spawned(c)
    /\ UNCHANGED <<config, categoryNames, serverNames, categoryCursor,
                   serverCursor, selectedCategory, selectedServer, state,
                   errorMessage, vaultToken, vaultTokenInput,
                   pasteError, env, envWrites, status, msgs, launches>>

(***************************************************************************)
(* The program: one key, one command or one message at a time.            *)
(***************************************************************************)
Next ==
    \/ \E key \in Keys :
         \/ TokenQuit(key)
         \/ TokenEnter(key)
         \/ TokenPaste(key)
         \/ TokenBackspace(key)
         \/ TokenDefault(key)
         \/ CategoryQuit(key)
         \/ CategoryUp(key)
         \/ CategoryDown(key)
         \/ CategoryEnter(key)
         \/ CategoryOther(key)
         \/ ServerQuit(key)
         \/ ServerUp(key)
         \/ ServerDown(key)
         \/ ServerEnter(key)
         \/ ServerBack(key)
         \/ ServerOther(key)
         \/ OutputQuit(key)
         \/ OutputBack(key)
         \/ OutputOther(key)
    \/ \E c \in cmds :
         \/ checkVaultToken(c)
         \/ UpdateScriptOutputMsg(c)
         \/ UpdateScriptErrorMsg(c)
    \/ \E msg \in msgs :
         \/ UpdateVaultTokenMsg(msg)
         \/ UpdateVaultTokenMissingMsg(msg)

Spec == Init /\ [][Next]_vars

(***************************************************************************)
(* Properties.                                                             *)
(***************************************************************************)
\* a configuration was loaded: no fatal configuration error is stored
Loaded == errorMessage = ""

\* the script executions launched whose result Update has not applied yet
InFlight == {c \in cmds : c.cmd = "runServerScript"}

\* the labels of the steps that handle a key
KeyEvents == Keys \cup {Unhandled}

\* the last step was key `key` handled on screen `screen`
Pressed(key, screen) == last.ev = key /\ last.on = screen

IsSorted(names) ==
    \A i \in 1..(Len(names) - 1) : StrLess(names[i], names[i + 1])

\* `names` lists exactly the keys of `map`, each once
ListsKeys(names, map) ==
    /\ Len(names) = Cardinality(DOMAIN map)
    /\ {names[i] : i \in 1..Len(names)} = DOMAIN map

\* C1: with a loaded configuration, the category cursor is an index of the
\* category names while on CategorySelection and the server cursor is an
\* index of the server names while on ServerSelection, also when the
\* selected category has no servers.
C1_CursorsInRange ==
    Loaded =>
        /\ state = StateCategorySelection =>
               categoryCursor \in 0..(Len(categoryNames) - 1)
        /\ state = StateServerSelection =>
               serverCursor \in 0..(Len(serverNames) - 1)

\* C2: at most one script execution is in flight in every reachable state.
C2_AtMostOneInFlight == Cardinality(InFlight) <= 1

\* C3: a step that applies a script's message leaves the error flag as that
\* message says: false, with the output text stored, after a success, and
\* true after a failure.
C3_ErrorFlagReflectsResult ==
    [][\A c \in InFlight :
          (last'.id = c.id /\ last'.ev \in {"scriptOutputMsg", "scriptErrorMsg"}) =>
              /\ last'.ev = "scriptOutputMsg" =>
                     /\ hasError' = FALSE
                     /\ \E msg \in runServerScript(c) :
                            msg.type = "scriptOutputMsg" /\ runOutput' = msg.text
              /\ last'.ev = "scriptErrorMsg" => hasError' = TRUE]_vars

\* C4: right after a confirm on ServerSelection that launched a script, the
\* screen is ScriptOutput, the output buffer is empty and the error flag is
\* false.
C4_ConfirmClearsOutput ==
    (Pressed("enter", StateServerSelection) /\ last.id # 0) =>
        /\ state = StateScriptOutput
        /\ runOutput = <<>>
        /\ hasError = FALSE

\* C5: once a fatal configuration error is stored, a key other than quit
\* changes nothing of the session (screen, cursors, token buffer, stored
\* token, environment variable) and launches no script.
C5_InputIgnoredAfterConfigError ==
    [][(~Loaded /\ last'.ev \in KeyEvents /\ status' # "quit") =>
          /\ UNCHANGED <<state, categoryCursor, serverCursor, vaultTokenInput,
                         vaultToken, env, envWrites>>
          /\ launches' = launches]_vars

\* C6: no sequence of events makes the update step fault: the process ends
\* only by quit.
C6_UpdateNeverFaults == status # "panic"

\* C7 as claimed: with an ambient token and exactly one category, the screen
\* after the token message is ServerSelection with the sole category selected.
C7_StartupSkipsCategorySelection ==
    (last.ev = "vaultTokenMsg" /\ Loaded /\ Len(categoryNames) = 1) =>
        /\ state = StateServerSelection
        /\ selectedCategory = categoryNames[1]

\* C7 as amended: with an ambient token and exactly one category, the screen
\* after the token message is CategorySelection with the cursor on the sole
\* category and the ambient token stored; a confirm there selects that
\* category and moves to ServerSelection; a confirm there that finds a server
\* under the cursor moves to ScriptOutput.
C7_StartupShowsCategorySelection ==
    (Loaded /\ Len(categoryNames) = 1) =>
        /\ last.ev = "vaultTokenMsg" =>
               /\ state = StateCategorySelection
               /\ categoryCursor = 0
               /\ vaultToken = env /\ vaultToken # <<>>
        /\ Pressed("enter", StateCategorySelection) =>
               /\ state = StateServerSelection
               /\ selectedCategory = categoryNames[1]
        /\ (Pressed("enter", StateServerSelection) /\ serverNames # <<>>) =>
               state = StateScriptOutput

\* C7 witness: an ambient-token session with one category, two confirms made
C7_TwoConfirmsReachOutput ==
    /\ Loaded /\ Len(categoryNames) = 1
    /\ envWrites = 0 /\ vaultToken = env /\ vaultToken # <<>>
    /\ Pressed("enter", StateServerSelection)
    /\ state = StateScriptOutput
    /\ selectedCategory = categoryNames[1]

\* C8: a confirm on TokenInput with an empty buffer leaves the screen on
\* TokenInput, the stored token as it was and the environment unwritten.
C8_EmptyConfirmIsNoOp ==
    [][(state = StateVaultTokenInput /\ vaultTokenInput = <<>>
        /\ last'.ev = "enter" /\ last'.on = StateVaultTokenInput) =>
          /\ state' = StateVaultTokenInput
          /\ vaultToken' = vaultToken
          /\ env' = env
          /\ envWrites' = envWrites]_vars

\* C8 witness: enter was pressed on TokenInput with nothing typed
C8_EmptyConfirmDone ==
    /\ Pressed("enter", StateVaultTokenInput)
    /\ vaultTokenInput = <<>>
    /\ state = StateVaultTokenInput
    /\ envWrites = 0

C10_CategoryConfirmSelects ==
    Pressed("enter", StateCategorySelection) =>
        /\ state = StateServerSelection
        /\ categoryCursor < Len(categoryNames)
        /\ selectedCategory = categoryNames[categoryCursor + 1]
        /\ serverCursor = 0
        /\ IsSorted(serverNames)
        /\ ListsKeys(serverNames, Servers(selectedCategory))

\* the server list is the sorted list of the selected category's servers
ServerListFresh ==
    /\ IsSorted(serverNames)
    /\ ListsKeys(serverNames, Servers(selectedCategory))

\* C11 as claimed: every step that enters ServerSelection leaves the server
\* names the sorted list of the selected category's servers and the server
\* cursor at 0.
C11_EntryResetsCursor ==
    [][(state # StateServerSelection /\ state' = StateServerSelection) =>
          /\ ServerListFresh'
          /\ serverCursor' = 0]_vars

\* C11 as amended: every step that enters ServerSelection leaves the server
\* names the sorted list of the selected category's servers; the server
\* cursor is 0 when the step is a confirm on CategorySelection, and when it
\* is back from ScriptOutput the list and the cursor are as they were, the
\* cursor on the server whose script was launched.
C11_EntryKeepsListFresh ==
    [][(state # StateServerSelection /\ state' = StateServerSelection) =>
          /\ ServerListFresh'
          /\ state = StateCategorySelection => serverCursor' = 0
          /\ state = StateScriptOutput =>
                 /\ serverNames' = serverNames
                 /\ serverCursor' = serverCursor
                 /\ serverNames'[serverCursor' + 1] = selectedServer']_vars

\* C11 witness: back from ScriptOutput with the cursor on the second server
C11_BackOnSecondServer ==
    /\ last.ev \in BackKeys /\ last.on = StateScriptOutput
    /\ state = StateServerSelection
    /\ serverCursor = 1
    /\ ServerListFresh

\* the bytes 128..191 continue a UTF-8 character begun earlier
IsContinuation(byte) == byte >= 128 /\ byte <= 191

\* a UTF-8 string without its last character
RECURSIVE DropLastChar(_)
DropLastChar(str) ==
    IF str = <<>> THEN <<>>
    ELSE LET front == SubSeq(str, 1, Len(str) - 1)
         IN  IF IsContinuation(str[Len(str)]) THEN DropLastChar(front)
             ELSE front

\* C12: on TokenInput every printable single-character key is appended to
\* the input buffer, none filtered out, and a deletion removes the last
\* character of the buffer (nothing of an empty one).
C12_TypingEditsBuffer ==
    [][(state = StateVaultTokenInput /\ last'.on = StateVaultTokenInput) =>
          /\ last'.ev \in Runes =>
                 /\ vaultTokenInput' = vaultTokenInput \o String(last'.ev)
                 /\ status' = "running"
          /\ last'.ev = "backspace" =>
                 vaultTokenInput' = DropLastChar(vaultTokenInput)]_vars

ScriptMsgs == {"scriptOutputMsg", "scriptErrorMsg"}

NoScriptText == <<"No script or script_path defined for this server">>

\* C13: a script command whose result is applied has run the inline script
\* under bash when the script is non-empty, whatever the path; else the
\* executable path when that is non-empty; else no process at all, and its
\* result is the failure 'no script configured'.
C13_RunnerResolvesInOrder ==
    [][\A c \in cmds :
          (c.cmd = "runServerScript" /\ c \notin cmds') =>
             /\ last'.ev \in ScriptMsgs /\ last'.id = c.id
             /\ IF c.config.Script # ""
                THEN procs' = procs \cup
                       {[id |-> c.id, prog |-> "bash", arg |-> c.config.Script]}
                ELSE IF c.config.ScriptPath # ""
                THEN procs' = procs \cup
                       {[id |-> c.id, prog |-> c.config.ScriptPath, arg |-> ""]}
                ELSE /\ procs' = procs
                     /\ last'.ev = "scriptErrorMsg"
                     /\ runOutput' = NoScriptText
                     /\ hasError']_vars

\* C13 witness: the first launch ran the inline script of a server that has
\* a path too, the second, of a server with neither, ran nothing and failed
C13_InlineRanThenNothingRan ==
    /\ last.ev = "scriptErrorMsg" /\ last.id = 2
    /\ runOutput = NoScriptText
    /\ procs = {[id |-> 1, prog |-> "bash", arg |-> "exit 3"]}
    /\ ServerConfigOf(<<97>>, <<101, 97>>).ScriptPath # ""

\* C14: the step that handles a paste request on TokenInput or a confirm on
\* ServerSelection only dispatches work: the clipboard text, the paste
\* error and the script result reach the session in a later step.
C14_KeyStepOnlyDispatches ==
    [][/\ (last'.ev \in PasteKeys /\ last'.on = StateVaultTokenInput) =>
              /\ vaultTokenInput' = vaultTokenInput
              /\ pasteError' = ""
       /\ (last'.ev \in EnterKeys /\ last'.on = StateServerSelection) =>
              /\ runOutput' = runOutput
              /\ hasError' = hasError
              /\ procs' = procs]_vars

\* C15: a confirm on CategorySelection of the category that was selected
\* before, which is what follows back from ServerSelection, enters
\* ServerSelection with the same server name list as before and the server
\* cursor at 0, whatever the cursor was.
C15_ReconfirmReproducesList ==
    [][(/\ state = StateCategorySelection
        /\ last'.ev \in EnterKeys /\ last'.on = StateCategorySelection
        /\ categoryCursor < Len(categoryNames)
        /\ categoryNames[categoryCursor + 1] = selectedCategory) =>
          /\ state' = StateServerSelection
          /\ selectedCategory' = selectedCategory
          /\ serverNames' = serverNames
          /\ serverCursor' = 0]_vars

\* C15 witness: back was pressed on ServerSelection with the cursor on the
\* second server, and the confirm right after it has put the cursor at 0
C15_ReconfirmedFromSecondServer ==
    /\ last.ev \in EnterKeys /\ last.on = StateCategorySelection
    /\ last.was = 1
    /\ state = StateServerSelection
    /\ Len(serverNames) = 2
    /\ serverCursor = 0

\* C16: a paste on TokenInput whose clipboard read fails sets the paste
\* error and leaves the buffer and the screen as they were; one that
\* succeeds appends the text and leaves no error; every other key on
\* TokenInput leaves no paste error, and typing after a failure still
\* appends.
C16_PasteErrorIsTransient ==
    [][(state = StateVaultTokenInput /\ last'.on = StateVaultTokenInput
        /\ last'.ev \in KeyEvents) =>
          IF last'.ev \in PasteKeys
          THEN \E clip \in ClipboardResults :
                 IF clip.err
                 THEN /\ pasteError' # ""
                      /\ vaultTokenInput' = vaultTokenInput
                      /\ state' = state
                 ELSE /\ pasteError' = ""
                      /\ vaultTokenInput' = vaultTokenInput \o clip.text
          ELSE /\ pasteError' = ""
               /\ last'.ev = "a" =>
                    vaultTokenInput' = vaultTokenInput \o String("a")]_vars

\* C16 witness: a failed paste on a buffer that holds text
C16_PasteFailedOnText ==
    /\ last.ev \in PasteKeys /\ last.on = StateVaultTokenInput
    /\ state = StateVaultTokenInput
    /\ pasteError # ""
    /\ vaultTokenInput # <<>>

\* C17: on ScriptOutput the result of a launch earlier than the one that
\* entered the screen is never stored: a step that applies such a result
\* leaves the output buffer and the error flag as they were.
C17_LateResultNotStored ==
    [][(/\ last'.ev \in ScriptMsgs
        /\ last'.on = StateScriptOutput
        /\ last'.id # launches) =>
          /\ runOutput' = runOutput
          /\ hasError' = hasError]_vars

\* View on ScriptOutput shows "Running script..." (lines 322, 328-336)
ViewShowsRunning ==
    /\ errorMessage = ""
    /\ state = StateScriptOutput
    /\ runOutput = <<>>

\* C18: once the result of the launched script has been applied on
\* ScriptOutput, the screen does not show the running indicator, whatever
\* the outcome.
C18_ResultEndsRunningIndicator ==
    (/\ last.ev \in ScriptMsgs
     /\ last.on = StateScriptOutput
     /\ last.id = launches) => ~ViewShowsRunning

\* C19: once a token is stored, no key event and no script result leads
\* back to TokenInput, changes the stored token or writes the environment
\* variable.
C19_StoredTokenIsFinal ==
    [][(vaultToken # <<>> /\ last'.ev \in KeyEvents \cup ScriptMsgs) =>
          /\ state' # StateVaultTokenInput
          /\ vaultToken' = vaultToken
          /\ env' = env
          /\ envWrites' = envWrites]_vars

\* C19 witness: the token was committed once, two scripts were launched
\* since and a result has just been applied
C19_CommittedThenUsed ==
    /\ envWrites = 1 /\ vaultToken # <<>> /\ env = vaultToken
    /\ launches = MaxLaunches
    /\ last.ev \in ScriptMsgs
    /\ state # StateVaultTokenInput

\* C20: the command of a launch just made carries the stored token, which
\* is not empty, the name of the server under the server cursor and that
\* server's configuration in the selected category; every pending command
\* carries the stored token, and nothing is launched without a token.
C20_LaunchCarriesTokenAndServer ==
    /\ launches > 0 => vaultToken # <<>>
    /\ \A c \in cmds : c.cmd = "runServerScript" =>
           c.token = vaultToken /\ c.token # <<>>
    /\ (last.ev \in EnterKeys /\ last.on = StateServerSelection /\ last.id # 0) =>
           \E c \in cmds :
              /\ c.cmd = "runServerScript" /\ c.id = last.id
              /\ c.id = launches
              /\ c.server = serverNames[serverCursor + 1]
              /\ c.server = selectedServer
              /\ c.server \in DOMAIN Servers(selectedCategory)
              /\ c.config = Servers(selectedCategory)[c.server]

\* C20 witness: the second launch, made with the cursor on the second
\* server and a token that was typed
C20_SecondLaunchOfSecondServer ==
    /\ last.ev \in EnterKeys /\ last.on = StateServerSelection
    /\ last.id = 2
    /\ serverCursor = 1
    /\ envWrites = 1
    /\ state = StateScriptOutput

====
